---- MODULE Spec2Model ----
(***************************************************************************)
(* Model of pkg/miniox: the path namespace (ValidatePath, buildPath,       *)
(* stripBasePath) and the operations built on it, over a flat object       *)
(* store.  Strings are sequences of one-character strings.  The model      *)
(* fixes a unix-like GOOS, where os.PathSeparator is '/'.                  *)
(***************************************************************************)
EXTENDS Integers, Sequences, FiniteSets, TLC

VARIABLES
    bucketName,      \* Client.bucketName
    baseDirPrefix,   \* Client.baseDirPrefix
    publicBaseURL,   \* Client.publicBaseURL
    store,           \* the bucket's objects: key -> size
    last,            \* the last call made on the client: arguments, result,
                     \* and the calls it issued to the storage client
    running          \* the goroutines at work on the client and the channels
                     \* between them, when calls overlap or run in stages

vars == <<bucketName, baseDirPrefix, publicBaseURL, store, last, running>>

----------------------------------------------------------------------------
(* Bounds of the model *)

MaxLen == 6         \* longest path / key drawn in the path-algebra specification
MaxPrefixLen == 2   \* longest configured base prefix in the path-algebra specification
MaxObjects == 2     \* most objects held by the bucket at once
MaxCreators == 2    \* goroutines that call CreateFolder at once
MaxEntries == 1     \* objects the bulk delete puts in one delete request

----------------------------------------------------------------------------
(* Strings *)

Alphabet == {"/", ".", "a"}

Strs(n) == UNION {[1..k -> Alphabet] : k \in 0..n}

Empty == <<>>

Slash == <<"/">>

DotDot == <<".", ".">>

\* os.PathSeparator of the build
Separator == "/"

\* filepath.ToSlash: every Separator becomes a forward slash
ToSlash(s) == [i \in 1..Len(s) |-> IF s[i] = Separator THEN "/" ELSE s[i]]

\* strings.HasPrefix
HasPrefix(s, p) == Len(s) >= Len(p) /\ SubSeq(s, 1, Len(p)) = p

\* strings.HasSuffix
HasSuffix(s, p) == Len(s) >= Len(p) /\ SubSeq(s, Len(s) - Len(p) + 1, Len(s)) = p

\* strings.TrimPrefix
TrimPrefix(s, p) == IF HasPrefix(s, p) THEN SubSeq(s, Len(p) + 1, Len(s)) ELSE s

\* strings.TrimSuffix
TrimSuffix(s, p) == IF HasSuffix(s, p) THEN SubSeq(s, 1, Len(s) - Len(p)) ELSE s

\* strings.Contains
Contains(s, sub) == \E i \in 1..(Len(s) - Len(sub) + 1) : SubSeq(s, i, i + Len(sub) - 1) = sub

\* strings.Trim(s, "/"): all leading and all trailing slashes are removed
RECURSIVE TrimLeft(_)
TrimLeft(s) == IF s # <<>> /\ Head(s) = "/" THEN TrimLeft(Tail(s)) ELSE s

RECURSIVE TrimRight(_)
TrimRight(s) == IF s # <<>> /\ s[Len(s)] = "/" THEN TrimRight(SubSeq(s, 1, Len(s) - 1)) ELSE s

Trim(s) == TrimRight(TrimLeft(s))

\* strings.Split(s, "/"): the segments between slashes; never empty
RECURSIVE Split(_)
Split(s) ==
    IF \A i \in 1..Len(s) : s[i] # "/"
    THEN <<s>>
    ELSE LET i == CHOOSE j \in 1..Len(s) : s[j] = "/" /\ \A k \in 1..(j - 1) : s[k] # "/"
         IN <<SubSeq(s, 1, i - 1)>> \o Split(SubSeq(s, i + 1, Len(s)))

----------------------------------------------------------------------------
(* Path namespace: client.go *)

NoErr == "nil"
ErrTraversal == "path traversal detected"
ErrAbsolute == "absolute paths are not allowed"

\* ValidatePath looking for ".." at the start of the path only
ValidatePath_LeadingOnly(path) ==
    LET cleanPath == ToSlash(path)
    IN IF HasPrefix(cleanPath, DotDot) THEN ErrTraversal
       ELSE IF HasPrefix(cleanPath, Slash) THEN ErrAbsolute
       ELSE NoErr

\* ValidatePath testing for an absolute path after trimming the slashes
ValidatePath_TrimFirst(path) ==
    LET cleanPath == Trim(ToSlash(path))
    IN IF Contains(cleanPath, DotDot) THEN ErrTraversal
       ELSE IF HasPrefix(cleanPath, Slash) THEN ErrAbsolute
       ELSE NoErr

\* Client.ValidatePath
ValidatePath(path) ==
    LET cleanPath == ToSlash(path)
    IN IF Contains(cleanPath, DotDot) THEN ErrTraversal
       ELSE IF HasPrefix(cleanPath, Slash) THEN ErrAbsolute
       ELSE NoErr

\* Client.buildPath, for a client whose baseDirPrefix is prefix
buildPath(prefix, path) ==
    LET cleanPath == Trim(ToSlash(path))
        cleanPrefix == Trim(ToSlash(prefix))
    IN IF prefix = Empty
       THEN (IF cleanPath = Empty THEN Empty ELSE cleanPath)
       ELSE IF cleanPath = Empty THEN cleanPrefix
       ELSE cleanPrefix \o Slash \o cleanPath

\* stripBasePath cutting the prefix without the separator that follows it
stripBasePath_NoSeparator(prefix, fullPath) ==
    LET cleanPrefix == Trim(ToSlash(prefix))
        cleanFullPath == ToSlash(fullPath)
    IN IF prefix = Empty THEN fullPath
       ELSE IF HasPrefix(cleanFullPath, cleanPrefix)
            THEN TrimPrefix(cleanFullPath, cleanPrefix)
       ELSE cleanFullPath

\* Client.stripBasePath, for a client whose baseDirPrefix is prefix
stripBasePath(prefix, fullPath) ==
    LET cleanPrefix == Trim(ToSlash(prefix))
        cleanFullPath == ToSlash(fullPath)
    IN IF prefix = Empty THEN fullPath
       ELSE IF HasPrefix(cleanFullPath, cleanPrefix \o Slash)
            THEN TrimPrefix(cleanFullPath, cleanPrefix \o Slash)
       ELSE IF cleanFullPath = cleanPrefix THEN Empty
       ELSE cleanFullPath

----------------------------------------------------------------------------
(* The record of a call on the client *)

\* what the caller holds once a call has returned: the operation and its
\* arguments, the error, the key / boolean / sequence it returned, and the
\* calls the operation issued to the storage client, in order
Result(op, args, flag, err, key, ok, list, calls) ==
    [op |-> op, args |-> args, flag |-> flag, err |-> err, key |-> key,
     ok |-> ok, list |-> list, calls |-> calls]

\* no call in progress: the caller is between two calls
Idle == Result("idle", <<>>, FALSE, NoErr, Empty, FALSE, <<>>, <<>>)

\* a call about to be made with argument p
Pending(p) == Result("pending", <<p>>, FALSE, NoErr, Empty, FALSE, <<>>, <<>>)

\* the empty bucket
NoObjects == <<>>

\* no goroutine at work: calls are made one after another and run to their end
NoGoroutines == <<>>

----------------------------------------------------------------------------
(* Path algebra: ValidatePath, buildPath and stripBasePath applied to every *)
(* argument up to MaxLen, for every base prefix up to MaxPrefixLen          *)

InitPath ==
    /\ bucketName = <<"b">>
    /\ baseDirPrefix \in Strs(MaxPrefixLen)
    /\ publicBaseURL = Empty
    /\ store = NoObjects
    /\ \E p \in Strs(MaxLen) : last = Pending(p)
    /\ running = NoGoroutines

PathFrame == UNCHANGED <<bucketName, baseDirPrefix, publicBaseURL, store, running>>

CallValidatePath ==
    /\ last.op = "pending"
    /\ last' = Result("ValidatePath", last.args, FALSE, ValidatePath(last.args[1]),
                       Empty, FALSE, <<>>, <<>>)
    /\ PathFrame

CallBuildPath ==
    /\ last.op = "pending"
    /\ last' = Result("buildPath", last.args, FALSE, NoErr,
                       buildPath(baseDirPrefix, last.args[1]), FALSE, <<>>, <<>>)
    /\ PathFrame

CallStripBasePath ==
    /\ last.op = "pending"
    /\ last' = Result("stripBasePath", last.args, FALSE, NoErr,
                       stripBasePath(baseDirPrefix, last.args[1]), FALSE, <<>>, <<>>)
    /\ PathFrame

\* the key an operation sends out, handed back by the storage client and
\* stripped for the caller (PutObject, StatObject, CopyObject, ComposeObject)
CallBuildThenStrip ==
    /\ last.op = "pending"
    /\ last' = Result("buildThenStrip", last.args, FALSE, NoErr,
                       stripBasePath(baseDirPrefix, buildPath(baseDirPrefix, last.args[1])),
                       FALSE, <<>>, <<>>)
    /\ PathFrame

NextPath == CallValidatePath \/ CallBuildPath \/ CallStripBasePath \/ CallBuildThenStrip

SpecPath == InitPath /\ [][NextPath]_vars

----------------------------------------------------------------------------
(* The storage client (minio-go) over the bucket, as the operations use it *)

ErrNoSuchKey == "NoSuchKey"
ErrOther == "storage error"
ErrInvalidName == "Object name cannot be empty"
ErrNotConfigured == "public base URL not configured"

\* the outcomes a request to the storage backend may be given from outside:
\* it is answered, or it fails (network, permission, backend)
Faults == {NoErr, ErrOther}

\* the literal "/.empty"
MarkerSuffix == <<"/", ".", "e", "m", "p", "t", "y">>

\* byte value of a character: object keys are listed in byte order
Ord(c) ==
    CASE c = "." -> 46 [] c = "/" -> 47 [] c = "a" -> 97 [] c = "b" -> 98
      [] c = "e" -> 101 [] c = "m" -> 109 [] c = "p" -> 112 [] c = "t" -> 116
      [] c = "u" -> 117 [] c = "y" -> 121

RECURSIVE KeyLess(_, _)
KeyLess(x, y) ==
    IF y = <<>> THEN FALSE
    ELSE IF x = <<>> THEN TRUE
    ELSE IF Head(x) # Head(y) THEN Ord(Head(x)) < Ord(Head(y))
    ELSE KeyLess(Tail(x), Tail(y))

\* the keys of S in listing order
RECURSIVE SortKeys(_)
SortKeys(S) ==
    IF S = {} THEN <<>>
    ELSE LET m == CHOOSE x \in S : \A y \in S \ {x} : KeyLess(x, y)
         IN <<m>> \o SortKeys(S \ {m})

\* the position of the first "/" of s, 0 when it has none
FirstSlash(s) ==
    IF \E i \in 1..Len(s) : s[i] = "/"
    THEN CHOOSE i \in 1..Len(s) : s[i] = "/" /\ \A j \in 1..(i - 1) : s[j] # "/"
    ELSE 0

\* one entry of a listing
Entry(key, err) == [Key |-> key, Err |-> err]

\* a call issued to the storage client, and the error it answered with
Call(api, bucket, key, src, recursive, opts, resp) ==
    [api |-> api, bucket |-> bucket, key |-> key, src |-> src,
     recursive |-> recursive, opts |-> opts, resp |-> resp]

\* minio.Client.ListObjects: the keys that begin with prefix, in order; when
\* not recursive, the keys with a "/" after the prefix are rolled up into
\* common prefixes, delivered after the objects of the level; a failing
\* listing delivers one entry that carries the error
S3ListObjects(objects, prefix, recursive, fault) ==
    LET matching == {k \in DOMAIN objects : HasPrefix(k, prefix)}
        rest(k) == SubSeq(k, Len(prefix) + 1, Len(k))
        level == {k \in matching : FirstSlash(rest(k)) = 0}
        common == {prefix \o SubSeq(rest(k), 1, FirstSlash(rest(k))) :
                      k \in matching \ level}
        keys == IF recursive THEN SortKeys(matching)
                ELSE SortKeys(level) \o SortKeys(common)
    IN IF fault # NoErr THEN <<Entry(Empty, fault)>>
       ELSE [i \in 1..Len(keys) |-> Entry(keys[i], NoErr)]

\* minio.Client.StatObject
S3StatObject(objects, key, fault) ==
    IF key = Empty THEN ErrInvalidName
    ELSE IF fault # NoErr THEN fault
    ELSE IF key \in DOMAIN objects THEN NoErr
    ELSE ErrNoSuchKey

\* the bucket after a successful write of size bytes at key
Written(objects, key, size) ==
    [k \in DOMAIN objects \cup {key} |-> IF k = key THEN size ELSE objects[k]]

\* the bucket after the objects at keys are deleted
Deleted(objects, keys) == [k \in DOMAIN objects \ keys |-> objects[k]]

\* minio.Client.PutObject: the error, and the bucket afterwards
S3PutObject(objects, key, size, fault) ==
    IF key = Empty THEN [err |-> ErrInvalidName, objects |-> objects]
    ELSE IF fault # NoErr THEN [err |-> fault, objects |-> objects]
    ELSE [err |-> NoErr, objects |-> Written(objects, key, size)]

\* minio.Client.RemoveObject: deleting a key that is absent succeeds
S3RemoveObject(objects, key, fault) ==
    IF key = Empty THEN [err |-> ErrInvalidName, objects |-> objects]
    ELSE IF fault # NoErr THEN [err |-> fault, objects |-> objects]
    ELSE [err |-> NoErr, objects |-> Deleted(objects, {key})]

\* minio.Client.RemoveObjects fed by a listing: every listed object is
\* deleted but those in failing, for which an error is reported
S3RemoveObjects(objects, listing, failing) ==
    LET listed == {listing[i].Key : i \in 1..Len(listing)}
    IN [errors |-> SortKeys(listed \cap failing),
        objects |-> Deleted(objects, listed \ failing)]

----------------------------------------------------------------------------
(* The operations of the client.  Each gives the caller's result and the   *)
(* bucket afterwards, for a client with base prefix `prefix` working on    *)
(* the bucket `objects`.                                                    *)

Outcome(res, objects) == [res |-> res, objects |-> objects]

\* the options value the caller hands to an operation, and the zero value
CallerOpts == "caller options"
ZeroOpts == "zero options"

\* an operation that fails before it reaches the storage client
Refused(op, args, err) == Result(op, args, FALSE, err, Empty, FALSE, <<>>, <<>>)

\* KeyedOp going to the storage client without validating the path
KeyedOp_NoValidation(op, api, prefix, objects, path, fault) ==
    LET fullPath == buildPath(prefix, path)
    IN Outcome(Result(op, <<path>>, FALSE, S3StatObject(objects, fullPath, fault),
                      Empty, FALSE, <<>>,
                      <<Call(api, bucketName, fullPath, <<>>, FALSE, CallerOpts,
                             S3StatObject(objects, fullPath, fault))>>),
               objects)

\* the shape of the single-object operations that return no key: validate,
\* build the key, hand bucket + key + options to the storage client
KeyedOp(op, api, prefix, objects, path, fault) ==
    LET fullPath == buildPath(prefix, path)
    IN IF ValidatePath(path) # NoErr
       THEN Outcome(Refused(op, <<path>>, ValidatePath(path)), objects)
       ELSE Outcome(Result(op, <<path>>, FALSE, S3StatObject(objects, fullPath, fault),
                           Empty, FALSE, <<>>,
                           <<Call(api, bucketName, fullPath, <<>>, FALSE, CallerOpts,
                                  S3StatObject(objects, fullPath, fault))>>),
                    objects)

\* the shape of the URL generators: validate, build the key, have the
\* storage client sign a URL for bucket + key
SignedOp(op, api, prefix, objects, path) ==
    LET fullPath == buildPath(prefix, path)
    IN IF ValidatePath(path) # NoErr
       THEN Outcome(Refused(op, <<path>>, ValidatePath(path)), objects)
       ELSE Outcome(Result(op, <<path>>, FALSE,
                           IF fullPath = Empty THEN ErrInvalidName ELSE NoErr,
                           fullPath, FALSE, <<>>,
                           <<Call(api, bucketName, fullPath, <<>>, FALSE, ZeroOpts,
                                  IF fullPath = Empty THEN ErrInvalidName ELSE NoErr)>>),
                    objects)

\* Client.StatObject
StatObjectOp(prefix, objects, objectPath, fault) ==
    LET fullPath == buildPath(prefix, objectPath)
        err == S3StatObject(objects, fullPath, fault)
    IN IF ValidatePath(objectPath) # NoErr
       THEN Outcome(Refused("StatObject", <<objectPath>>, ValidatePath(objectPath)), objects)
       ELSE Outcome(Result("StatObject", <<objectPath>>, FALSE, err,
                           IF err = NoErr THEN stripBasePath(prefix, fullPath) ELSE Empty,
                           FALSE, <<>>,
                           <<Call("StatObject", bucketName, fullPath, <<>>, FALSE, CallerOpts, err)>>),
                    objects)

\* Client.GetObject: the storage client opens the object lazily
GetObjectOp(prefix, objects, objectPath) ==
    LET fullPath == buildPath(prefix, objectPath)
    IN IF ValidatePath(objectPath) # NoErr
       THEN Outcome(Refused("GetObject", <<objectPath>>, ValidatePath(objectPath)), objects)
       ELSE Outcome(Result("GetObject", <<objectPath>>, FALSE,
                           IF fullPath = Empty THEN ErrInvalidName ELSE NoErr,
                           Empty, FALSE, <<>>,
                           <<Call("GetObject", bucketName, fullPath, <<>>, FALSE, CallerOpts,
                                  IF fullPath = Empty THEN ErrInvalidName ELSE NoErr)>>),
                    objects)

\* PutObject handing the caller the key as the storage client reports it
PutObjectOp_FullKey(prefix, objects, objectPath, objectSize, fault) ==
    LET fullPath == buildPath(prefix, objectPath)
        put == S3PutObject(objects, fullPath, objectSize, fault)
    IN IF ValidatePath(objectPath) # NoErr
       THEN Outcome(Refused("PutObject", <<objectPath>>, ValidatePath(objectPath)), objects)
       ELSE Outcome(Result("PutObject", <<objectPath>>, FALSE, put.err,
                           IF put.err = NoErr THEN fullPath ELSE Empty,
                           FALSE, <<>>,
                           <<Call("PutObject", bucketName, fullPath, <<>>, FALSE, CallerOpts, put.err)>>),
                    put.objects)

\* Client.PutObject
PutObjectOp(prefix, objects, objectPath, objectSize, fault) ==
    LET fullPath == buildPath(prefix, objectPath)
        put == S3PutObject(objects, fullPath, objectSize, fault)
    IN IF ValidatePath(objectPath) # NoErr
       THEN Outcome(Refused("PutObject", <<objectPath>>, ValidatePath(objectPath)), objects)
       ELSE Outcome(Result("PutObject", <<objectPath>>, FALSE, put.err,
                           IF put.err = NoErr THEN stripBasePath(prefix, fullPath) ELSE Empty,
                           FALSE, <<>>,
                           <<Call("PutObject", bucketName, fullPath, <<>>, FALSE, CallerOpts, put.err)>>),
                    put.objects)

\* Client.RemoveObject
RemoveObjectOp(prefix, objects, objectPath, fault) ==
    LET fullPath == buildPath(prefix, objectPath)
        rm == S3RemoveObject(objects, fullPath, fault)
    IN IF ValidatePath(objectPath) # NoErr
       THEN Outcome(Refused("RemoveObject", <<objectPath>>, ValidatePath(objectPath)), objects)
       ELSE Outcome(Result("RemoveObject", <<objectPath>>, FALSE, rm.err, Empty, FALSE, <<>>,
                           <<Call("RemoveObject", bucketName, fullPath, <<>>, FALSE, CallerOpts, rm.err)>>),
                    rm.objects)

\* the relay of Client.ListObjects: successful entries have their key
\* stripped, entries that carry an error pass unchanged
Relay(prefix, entries) ==
    [i \in 1..Len(entries) |->
        IF entries[i].Err = NoErr
        THEN Entry(stripBasePath(prefix, entries[i].Key), NoErr)
        ELSE entries[i]]

\* Client.ListObjects, read to the end by the caller
ListObjectsOp(prefix, objects, pfx, recursive, fault) ==
    LET fullPrefix == buildPath(prefix, pfx)
    IN IF pfx # Empty /\ ValidatePath(pfx) # NoErr
       THEN Outcome(Result("ListObjects", <<pfx>>, recursive, NoErr, Empty, FALSE,
                           <<Entry(Empty, ValidatePath(pfx))>>, <<>>), objects)
       ELSE Outcome(Result("ListObjects", <<pfx>>, recursive, NoErr, Empty, FALSE,
                           Relay(prefix, S3ListObjects(objects, fullPrefix, recursive, fault)),
                           <<Call("ListObjects", bucketName, fullPrefix, <<>>, recursive, ZeroOpts, fault)>>),
                    objects)

\* Client.CopyObject: the destination options are built afresh
CopyObjectOp(prefix, objects, destObjectPath, srcObjectPath, fault) ==
    LET fullDestPath == buildPath(prefix, destObjectPath)
        fullSrcPath == buildPath(prefix, srcObjectPath)
        srcErr == S3StatObject(objects, fullSrcPath, fault)
        err == IF fullDestPath = Empty THEN ErrInvalidName ELSE srcErr
        args == <<destObjectPath, srcObjectPath>>
    IN IF ValidatePath(destObjectPath) # NoErr
       THEN Outcome(Refused("CopyObject", args, ValidatePath(destObjectPath)), objects)
       ELSE IF ValidatePath(srcObjectPath) # NoErr
       THEN Outcome(Refused("CopyObject", args, ValidatePath(srcObjectPath)), objects)
       ELSE Outcome(Result("CopyObject", args, FALSE, err,
                           IF err = NoErr THEN stripBasePath(prefix, fullDestPath) ELSE Empty,
                           FALSE, <<>>,
                           <<Call("CopyObject", bucketName, fullDestPath,
                                  <<[Bucket |-> bucketName, Object |-> fullSrcPath]>>,
                                  FALSE, ZeroOpts, err)>>),
                    IF err = NoErr
                    THEN Written(objects, fullDestPath, objects[fullSrcPath])
                    ELSE objects)

\* the loop of Client.ComposeObject over the caller's slice: the sources of
\* the client's bucket are validated and rewritten in place, one by one,
\* until one fails validation (the error comes back wrapped with %w: its
\* kind is kept)
RECURSIVE ComposeSources(_, _, _)
ComposeSources(prefix, srcObjects, i) ==
    IF i > Len(srcObjects) THEN [err |-> NoErr, srcObjects |-> srcObjects]
    ELSE IF srcObjects[i].Bucket # bucketName THEN ComposeSources(prefix, srcObjects, i + 1)
    ELSE IF ValidatePath(srcObjects[i].Object) # NoErr
         THEN [err |-> ValidatePath(srcObjects[i].Object), srcObjects |-> srcObjects]
    ELSE ComposeSources(prefix,
                        [srcObjects EXCEPT ![i].Object = buildPath(prefix, srcObjects[i].Object)],
                        i + 1)

\* Client.ComposeObject; the arguments are the destination and the slice as
\* passed, the result's list is the caller's slice afterwards
ComposeObjectOp(prefix, objects, destObjectPath, srcObjects, fault) ==
    LET fullDestPath == buildPath(prefix, destObjectPath)
        loop == ComposeSources(prefix, srcObjects, 1)
        srcs == loop.srcObjects
        missing == \E i \in 1..Len(srcs) :
                       srcs[i].Bucket # bucketName \/ srcs[i].Object \notin DOMAIN objects
        err == IF fullDestPath = Empty THEN ErrInvalidName
               ELSE IF fault # NoErr THEN fault
               ELSE IF missing THEN ErrNoSuchKey
               ELSE NoErr
        size == IF \E i \in 1..Len(srcs) : objects[srcs[i].Object] > 0 THEN 1 ELSE 0
    IN IF ValidatePath(destObjectPath) # NoErr
       THEN Outcome(Result("ComposeObject", <<destObjectPath, srcObjects>>, FALSE,
                           ValidatePath(destObjectPath), Empty, FALSE, srcObjects, <<>>),
                    objects)
       ELSE IF loop.err # NoErr
       THEN Outcome(Result("ComposeObject", <<destObjectPath, srcObjects>>, FALSE, loop.err, Empty, FALSE,
                           srcs, <<>>),
                    objects)
       ELSE Outcome(Result("ComposeObject", <<destObjectPath, srcObjects>>, FALSE, err,
                           IF err = NoErr THEN stripBasePath(prefix, fullDestPath) ELSE Empty,
                           FALSE, srcs,
                           <<Call("ComposeObject", bucketName, fullDestPath, srcs, FALSE,
                                  CallerOpts, err)>>),
                    IF err = NoErr THEN Written(objects, fullDestPath, size) ELSE objects)

\* Client.SelectObjectContent: the path is not validated
SelectObjectContentOp(prefix, objects, objectPath, fault) ==
    LET fullPath == buildPath(prefix, objectPath)
    IN Outcome(Result("SelectObjectContent", <<objectPath>>, FALSE,
                      S3StatObject(objects, fullPath, fault), Empty, FALSE, <<>>,
                      <<Call("SelectObjectContent", bucketName, fullPath, <<>>, FALSE,
                             CallerOpts, S3StatObject(objects, fullPath, fault))>>),
               objects)

\* Client.GetPresignedPostPolicy: the policy goes to the storage client as
\* the caller made it, its key included
GetPresignedPostPolicyOp(objects, policyKey) ==
    Outcome(Result("GetPresignedPostPolicy", <<policyKey>>, FALSE,
                   IF policyKey = Empty THEN ErrInvalidName ELSE NoErr,
                   policyKey, FALSE, <<>>,
                   <<Call("PresignedPostPolicy", bucketName, policyKey, <<>>, FALSE,
                          CallerOpts, IF policyKey = Empty THEN ErrInvalidName ELSE NoErr)>>),
            objects)

\* Client.GetPublicURL: the URL is put together locally
GetPublicURLOp(prefix, objects, objectPath) ==
    LET fullPath == buildPath(prefix, objectPath)
        baseURL == TrimSuffix(publicBaseURL, Slash)
    IN IF publicBaseURL = Empty
       THEN Outcome(Refused("GetPublicURL", <<objectPath>>, ErrNotConfigured), objects)
       ELSE IF ValidatePath(objectPath) # NoErr
       THEN Outcome(Refused("GetPublicURL", <<objectPath>>, ValidatePath(objectPath)), objects)
       ELSE Outcome(Result("GetPublicURL", <<objectPath>>, FALSE, NoErr,
                           baseURL \o Slash \o bucketName \o Slash \o fullPath,
                           FALSE, <<>>, <<>>),
                    objects)

----------------------------------------------------------------------------
(* Folder emulation: urls.go *)

\* FolderExists answering from the keys under the folder instead of the marker
FolderExistsOp_ByContent(prefix, objects, folderPath, fault) ==
    LET fullPath == buildPath(prefix, folderPath)
        filePath == fullPath \o MarkerSuffix
        err == IF fault # NoErr THEN fault
               ELSE IF \E k \in DOMAIN objects : HasPrefix(k, fullPath \o Slash) THEN NoErr
               ELSE ErrNoSuchKey
        calls == <<Call("StatObject", bucketName, filePath, <<>>, FALSE, ZeroOpts, err)>>
    IN IF ValidatePath(folderPath) # NoErr
       THEN Outcome(Refused("FolderExists", <<folderPath>>, ValidatePath(folderPath)), objects)
       ELSE IF err = NoErr
       THEN Outcome(Result("FolderExists", <<folderPath>>, FALSE, NoErr, Empty, TRUE, <<>>, calls),
                    objects)
       ELSE IF err = ErrNoSuchKey
       THEN Outcome(Result("FolderExists", <<folderPath>>, FALSE, NoErr, Empty, FALSE, <<>>, calls),
                    objects)
       ELSE Outcome(Result("FolderExists", <<folderPath>>, FALSE, err, Empty, FALSE, <<>>, calls),
                    objects)

\* FolderExists answering "absent" to every error of the storage client
FolderExistsOp_HidesErrors(prefix, objects, folderPath, fault) ==
    LET fullPath == buildPath(prefix, folderPath)
        filePath == fullPath \o MarkerSuffix
        err == S3StatObject(objects, filePath, fault)
        calls == <<Call("StatObject", bucketName, filePath, <<>>, FALSE, ZeroOpts, err)>>
    IN IF ValidatePath(folderPath) # NoErr
       THEN Outcome(Refused("FolderExists", <<folderPath>>, ValidatePath(folderPath)), objects)
       ELSE Outcome(Result("FolderExists", <<folderPath>>, FALSE, NoErr, Empty, err = NoErr, <<>>, calls),
                    objects)

\* Client.FolderExists
FolderExistsOp(prefix, objects, folderPath, fault) ==
    LET fullPath == buildPath(prefix, folderPath)
        filePath == fullPath \o MarkerSuffix
        err == S3StatObject(objects, filePath, fault)
        calls == <<Call("StatObject", bucketName, filePath, <<>>, FALSE, ZeroOpts, err)>>
    IN IF ValidatePath(folderPath) # NoErr
       THEN Outcome(Refused("FolderExists", <<folderPath>>, ValidatePath(folderPath)), objects)
       ELSE IF err = NoErr
       THEN Outcome(Result("FolderExists", <<folderPath>>, FALSE, NoErr, Empty, TRUE, <<>>, calls),
                    objects)
       ELSE IF err = ErrNoSuchKey
       THEN Outcome(Result("FolderExists", <<folderPath>>, FALSE, NoErr, Empty, FALSE, <<>>, calls),
                    objects)
       ELSE Outcome(Result("FolderExists", <<folderPath>>, FALSE, err, Empty, FALSE, <<>>, calls),
                    objects)

\* CreateFolder writing the marker without looking whether it is there
CreateFolderOp_NoCheck(prefix, objects, folderPath, statFault, putFault) ==
    LET filePath == buildPath(prefix, folderPath) \o MarkerSuffix
        put == S3PutObject(objects, filePath, 0, putFault)
    IN IF ValidatePath(folderPath) # NoErr
       THEN Outcome(Refused("CreateFolder", <<folderPath>>, ValidatePath(folderPath)), objects)
       ELSE Outcome(Result("CreateFolder", <<folderPath>>, FALSE, put.err, Empty, FALSE, <<>>,
                           <<Call("PutObject", bucketName, filePath, <<>>, FALSE, ZeroOpts, put.err)>>),
                    put.objects)

\* Client.CreateFolder
CreateFolderOp(prefix, objects, folderPath, statFault, putFault) ==
    LET check == FolderExistsOp(prefix, objects, folderPath, statFault).res
        fullPath == buildPath(prefix, folderPath)
        filePath == fullPath \o MarkerSuffix
        put == S3PutObject(objects, filePath, 0, putFault)
    IN IF ValidatePath(folderPath) # NoErr
       THEN Outcome(Refused("CreateFolder", <<folderPath>>, ValidatePath(folderPath)), objects)
       ELSE IF check.ok
       THEN Outcome(Result("CreateFolder", <<folderPath>>, FALSE, NoErr, Empty, FALSE, <<>>,
                           check.calls),
                    objects)
       ELSE IF check.err # NoErr
       THEN Outcome(Result("CreateFolder", <<folderPath>>, FALSE, check.err, Empty, FALSE, <<>>,
                           check.calls),
                    objects)
       ELSE Outcome(Result("CreateFolder", <<folderPath>>, FALSE, put.err, Empty, FALSE, <<>>,
                           check.calls \o
                           <<Call("PutObject", bucketName, filePath, <<>>, FALSE, ZeroOpts, put.err)>>),
                    put.objects)

\* RemoveFolder listing under the folder key as it is built, with no
\* separator after it
RemoveFolderOp_NoSeparator(prefix, objects, folderPath, failing) ==
    LET fullPath == buildPath(prefix, folderPath)
        listing == S3ListObjects(objects, fullPath, TRUE, NoErr)
        removal == S3RemoveObjects(objects, listing, failing)
    IN IF ValidatePath(folderPath) # NoErr
       THEN Outcome(Refused("RemoveFolder", <<folderPath>>, ValidatePath(folderPath)), objects)
       ELSE Outcome(Result("RemoveFolder", <<folderPath>>, FALSE,
                           IF removal.errors # <<>> THEN ErrOther ELSE NoErr,
                           IF removal.errors # <<>> THEN removal.errors[1] ELSE Empty,
                           FALSE, <<>>,
                           <<Call("ListObjects", bucketName, fullPath, <<>>, TRUE, ZeroOpts, NoErr),
                             Call("RemoveObjects", bucketName, fullPath, <<>>, FALSE, ZeroOpts,
                                  IF removal.errors # <<>> THEN ErrOther ELSE NoErr)>>),
                    removal.objects)

\* Client.RemoveFolder: the recursive listing under the folder key and one
\* separator is fed to the bulk delete; the first error it reports is returned
RemoveFolderOp(prefix, objects, folderPath, failing) ==
    LET built == buildPath(prefix, folderPath)
        fullPath == IF ~HasSuffix(built, Slash) THEN built \o Slash ELSE built
        listing == S3ListObjects(objects, fullPath, TRUE, NoErr)
        removal == S3RemoveObjects(objects, listing, failing)
    IN IF ValidatePath(folderPath) # NoErr
       THEN Outcome(Refused("RemoveFolder", <<folderPath>>, ValidatePath(folderPath)), objects)
       ELSE Outcome(Result("RemoveFolder", <<folderPath>>, FALSE,
                           IF removal.errors # <<>> THEN ErrOther ELSE NoErr,
                           IF removal.errors # <<>> THEN removal.errors[1] ELSE Empty,
                           FALSE, <<>>,
                           <<Call("ListObjects", bucketName, fullPath, <<>>, TRUE, ZeroOpts, NoErr),
                             Call("RemoveObjects", bucketName, fullPath, <<>>, FALSE, ZeroOpts,
                                  IF removal.errors # <<>> THEN ErrOther ELSE NoErr)>>),
                    removal.objects)

\* the loop of ListFolders reporting every entry's first segment, also for
\* the entries that have one segment only
RECURSIVE CollectFolders_AnyEntry(_, _, _, _)
CollectFolders_AnyEntry(prefix, pfx, entries, folders) ==
    IF entries = <<>> THEN [err |-> NoErr, folders |-> folders]
    ELSE IF Head(entries).Err # NoErr THEN [err |-> Head(entries).Err, folders |-> <<>>]
    ELSE LET stripped == stripBasePath(prefix, Head(entries).Key)
             relativePath == IF pfx # Empty
                             THEN TrimPrefix(stripped, Trim(pfx) \o Slash)
                             ELSE stripped
             parts == Split(relativePath)
             seenFolders == {folders[i] : i \in 1..Len(folders)}
         IN CollectFolders_AnyEntry(prefix, pfx, Tail(entries),
                IF parts[1] # Empty /\ parts[1] \notin seenFolders
                THEN Append(folders, parts[1])
                ELSE folders)

\* the loop of ListFolders over the entries of the listing
RECURSIVE CollectFolders(_, _, _, _)
CollectFolders(prefix, pfx, entries, folders) ==
    IF entries = <<>> THEN [err |-> NoErr, folders |-> folders]
    ELSE IF Head(entries).Err # NoErr THEN [err |-> Head(entries).Err, folders |-> <<>>]
    ELSE LET stripped == stripBasePath(prefix, Head(entries).Key)
             relativePath == IF pfx # Empty
                             THEN TrimPrefix(stripped, Trim(pfx) \o Slash)
                             ELSE stripped
             parts == Split(relativePath)
             seenFolders == {folders[i] : i \in 1..Len(folders)}
         IN CollectFolders(prefix, pfx, Tail(entries),
                IF Len(parts) > 1 /\ parts[1] # Empty /\ parts[1] \notin seenFolders
                THEN Append(folders, parts[1])
                ELSE folders)

\* Client.ListFolders
ListFoldersOp(prefix, objects, pfx, fault) ==
    LET built == buildPath(prefix, pfx)
        fullPrefix == IF built # Empty /\ ~HasSuffix(built, Slash) THEN built \o Slash ELSE built
        loop == CollectFolders(prefix, pfx, S3ListObjects(objects, fullPrefix, FALSE, fault), <<>>)
    IN IF pfx # Empty /\ ValidatePath(pfx) # NoErr
       THEN Outcome(Refused("ListFolders", <<pfx>>, ValidatePath(pfx)), objects)
       ELSE Outcome(Result("ListFolders", <<pfx>>, FALSE, loop.err, Empty, FALSE, loop.folders,
                           <<Call("ListObjects", bucketName, fullPrefix, <<>>, FALSE, ZeroOpts, fault)>>),
                    objects)

----------------------------------------------------------------------------
(* A caller making one call after another on a client, over a bucket that  *)
(* starts empty                                                             *)

\* the configurations New is given: no base prefix and no public URL, a
\* plain base prefix, a base prefix made of a separator
Configs ==
    { [BaseDirPrefix |-> Empty, PublicURL |-> Empty],
      [BaseDirPrefix |-> <<"a">>, PublicURL |-> <<"u">>],
      [BaseDirPrefix |-> <<"/">>, PublicURL |-> <<"u", "/">>] }

\* the paths the caller passes: the root, names, nested names, a name that
\* extends another, a trailing separator, a traversal, an absolute path
StorePaths ==
    { Empty,
      <<"a">>,
      <<"a", "b">>,
      <<"a", "/", "b">>,
      <<"a", "/", "b", "/", "a">>,
      <<"b", "/", "a">>,
      <<"a", "/">>,
      <<".", ".", "/", "a">>,
      <<"/", "a">> }

\* the source slices the caller passes to ComposeObject
SourceSlices ==
    { <<[Bucket |-> <<"b">>, Object |-> <<"a">>]>>,
      <<[Bucket |-> <<"b">>, Object |-> <<"a">>], [Bucket |-> <<"b">>, Object |-> <<".", ".", "/", "a">>]>>,
      <<[Bucket |-> <<"o">>, Object |-> <<"/", "a">>], [Bucket |-> <<"b">>, Object |-> <<"a", "/", "b">>]>> }

\* the sizes of the objects the caller uploads
ObjectSizes == {1}

\* New: the configuration is stored as given
Init ==
    /\ bucketName = <<"b">>
    /\ \E config \in Configs :
          /\ baseDirPrefix = config.BaseDirPrefix
          /\ publicBaseURL = config.PublicURL
    /\ store = NoObjects
    /\ last = Idle
    /\ running = NoGoroutines

\* a call made by the idle caller runs to its end
Finish(out) ==
    /\ last.op = "idle"
    /\ Cardinality(DOMAIN out.objects) <= MaxObjects
    /\ last' = out.res
    /\ store' = out.objects
    /\ UNCHANGED <<bucketName, baseDirPrefix, publicBaseURL, running>>

\* the caller has taken the result and is ready for the next call
Return ==
    /\ last.op \notin {"idle", "pending"}
    /\ last' = Idle
    /\ UNCHANGED <<bucketName, baseDirPrefix, publicBaseURL, store, running>>

StatObject ==
    \E p \in StorePaths, f \in Faults : Finish(StatObjectOp(baseDirPrefix, store, p, f))

GetObject ==
    \E p \in StorePaths : Finish(GetObjectOp(baseDirPrefix, store, p))

PutObject ==
    \E p \in StorePaths, size \in ObjectSizes, f \in Faults :
        Finish(PutObjectOp(baseDirPrefix, store, p, size, f))

RemoveObject ==
    \E p \in StorePaths, f \in Faults : Finish(RemoveObjectOp(baseDirPrefix, store, p, f))

ListObjects ==
    \E p \in StorePaths, recursive \in BOOLEAN, f \in Faults :
        Finish(ListObjectsOp(baseDirPrefix, store, p, recursive, f))

CopyObject ==
    \E d \in StorePaths, p \in StorePaths, f \in Faults :
        Finish(CopyObjectOp(baseDirPrefix, store, d, p, f))

ComposeObject ==
    \E d \in StorePaths, srcObjects \in SourceSlices, f \in Faults :
        Finish(ComposeObjectOp(baseDirPrefix, store, d, srcObjects, f))

GetObjectTagging ==
    \E p \in StorePaths, f \in Faults :
        Finish(KeyedOp("GetObjectTagging", "GetObjectTagging", baseDirPrefix, store, p, f))

PutObjectTagging ==
    \E p \in StorePaths, f \in Faults :
        Finish(KeyedOp("PutObjectTagging", "PutObjectTagging", baseDirPrefix, store, p, f))

RemoveObjectTagging ==
    \E p \in StorePaths, f \in Faults :
        Finish(KeyedOp("RemoveObjectTagging", "RemoveObjectTagging", baseDirPrefix, store, p, f))

GetObjectRetention ==
    \E p \in StorePaths, f \in Faults :
        Finish(KeyedOp("GetObjectRetention", "GetObjectRetention", baseDirPrefix, store, p, f))

PutObjectRetention ==
    \E p \in StorePaths, f \in Faults :
        Finish(KeyedOp("PutObjectRetention", "PutObjectRetention", baseDirPrefix, store, p, f))

GetObjectLegalHold ==
    \E p \in StorePaths, f \in Faults :
        Finish(KeyedOp("GetObjectLegalHold", "GetObjectLegalHold", baseDirPrefix, store, p, f))

PutObjectLegalHold ==
    \E p \in StorePaths, f \in Faults :
        Finish(KeyedOp("PutObjectLegalHold", "PutObjectLegalHold", baseDirPrefix, store, p, f))

SelectObjectContent ==
    \E p \in StorePaths, f \in Faults :
        Finish(SelectObjectContentOp(baseDirPrefix, store, p, f))

GetPresignedURL ==
    \E p \in StorePaths :
        Finish(SignedOp("GetPresignedURL", "PresignedGetObject", baseDirPrefix, store, p))

GetPresignedURLWithParams ==
    \E p \in StorePaths :
        Finish(SignedOp("GetPresignedURLWithParams", "PresignedGetObject", baseDirPrefix, store, p))

GetPresignedPutURL ==
    \E p \in StorePaths :
        Finish(SignedOp("GetPresignedPutURL", "PresignedPutObject", baseDirPrefix, store, p))

GetPresignedPostPolicy ==
    \E k \in StorePaths : Finish(GetPresignedPostPolicyOp(store, k))

GetPublicURL ==
    \E p \in StorePaths : Finish(GetPublicURLOp(baseDirPrefix, store, p))

PresignedGetObject ==
    \E p \in StorePaths :
        Finish(SignedOp("PresignedGetObject", "PresignedGetObject", baseDirPrefix, store, p))

PresignedPutObject ==
    \E p \in StorePaths :
        Finish(SignedOp("PresignedPutObject", "PresignedPutObject", baseDirPrefix, store, p))

PresignedHeadObject ==
    \E p \in StorePaths :
        Finish(SignedOp("PresignedHeadObject", "PresignedHeadObject", baseDirPrefix, store, p))

PresignedPostPolicyForUpload ==
    \E p \in StorePaths :
        Finish(SignedOp("PresignedPostPolicyForUpload", "PresignedPostPolicy", baseDirPrefix, store, p))

PresignedPostPolicyWithConditions ==
    \E p \in StorePaths :
        Finish(SignedOp("PresignedPostPolicyWithConditions", "PresignedPostPolicy", baseDirPrefix, store, p))

FolderExists ==
    \E p \in StorePaths, f \in Faults : Finish(FolderExistsOp(baseDirPrefix, store, p, f))

CreateFolder ==
    \E p \in StorePaths, statFault \in Faults, putFault \in Faults :
        Finish(CreateFolderOp(baseDirPrefix, store, p, statFault, putFault))

RemoveFolder ==
    \E p \in StorePaths, failing \in SUBSET DOMAIN store :
        Finish(RemoveFolderOp(baseDirPrefix, store, p, failing))

ListFolders ==
    \E p \in StorePaths, f \in Faults : Finish(ListFoldersOp(baseDirPrefix, store, p, f))

\* a call made right after another has returned
Follow(out) ==
    /\ Cardinality(DOMAIN out.objects) <= MaxObjects
    /\ last' = out.res
    /\ store' = out.objects
    /\ UNCHANGED <<bucketName, baseDirPrefix, publicBaseURL, running>>

\* the caller calls CreateFolder a second time with the same path, right
\* after the first call succeeded; the result is flagged as the second call's
CreateFolderAgain ==
    /\ last.op = "CreateFolder" /\ last.err = NoErr /\ ~last.flag
    /\ \E statFault \in Faults, putFault \in Faults :
          Follow(LET out == CreateFolderOp(baseDirPrefix, store, last.args[1], statFault, putFault)
                 IN Outcome([out.res EXCEPT !.flag = TRUE], out.objects))

\* the caller calls ComposeObject a second time with the same destination
\* and the same slice, as the first call left it; the result is flagged as
\* the second call's
ComposeObjectAgain ==
    /\ last.op = "ComposeObject" /\ ~last.flag
    /\ \E f \in Faults :
          Follow(LET out == ComposeObjectOp(baseDirPrefix, store, last.args[1], last.list, f)
                 IN Outcome([out.res EXCEPT !.flag = TRUE], out.objects))

\* the caller lists the folder recursively right after RemoveFolder returned
ListObjectsAfterRemoveFolder ==
    /\ last.op = "RemoveFolder"
    /\ \E f \in Faults : Follow(ListObjectsOp(baseDirPrefix, store, last.args[1], TRUE, f))

Next ==
    \/ Return
    \/ StatObject \/ GetObject \/ PutObject \/ RemoveObject \/ ListObjects
    \/ CopyObject \/ ComposeObject
    \/ GetObjectTagging \/ PutObjectTagging \/ RemoveObjectTagging
    \/ GetObjectRetention \/ PutObjectRetention
    \/ GetObjectLegalHold \/ PutObjectLegalHold
    \/ SelectObjectContent
    \/ GetPresignedURL \/ GetPresignedURLWithParams \/ GetPresignedPutURL
    \/ GetPresignedPostPolicy \/ GetPublicURL
    \/ PresignedGetObject \/ PresignedPutObject \/ PresignedHeadObject
    \/ PresignedPostPolicyForUpload \/ PresignedPostPolicyWithConditions
    \/ FolderExists \/ CreateFolder \/ RemoveFolder \/ ListFolders
    \/ CreateFolderAgain \/ ListObjectsAfterRemoveFolder \/ ComposeObjectAgain

Spec == Init /\ [][Next]_vars

----------------------------------------------------------------------------
(* The same caller on a bucket shared with other tenants: when the client  *)
(* is constructed the bucket already holds objects that were written under *)
(* other base prefixes                                                      *)

\* keys of other tenants: under "ab", a name that extends the base prefix
\* "a", and under "b"
ForeignKeys == { <<"a", "b", "/", "a">>, <<"b", "/", "a">> }

\* New checks that the bucket exists and leaves what it holds as it is
InitShared ==
    /\ bucketName = <<"b">>
    /\ \E config \in Configs :
          /\ baseDirPrefix = config.BaseDirPrefix
          /\ publicBaseURL = config.PublicURL
    /\ \E held \in (SUBSET ForeignKeys) \ {{}} : store = [k \in held |-> 1]
    /\ last = Idle
    /\ running = NoGoroutines

SpecShared == InitShared /\ [][Next]_vars

----------------------------------------------------------------------------
(* CreateFolder called by several goroutines at once for one path: the     *)
(* existence check and the marker write of a call are two requests to the  *)
(* storage client, and the requests of the calls interleave                *)

Creators == 1..MaxCreators

\* where a goroutine stands in its call, the error it returned, whether the
\* storage client failed one of its requests, whether it wrote
Goroutine(pc, err, faulted, wrote) ==
    [pc |-> pc, err |-> err, faulted |-> faulted, wrote |-> wrote]

\* the bucket before the calls: empty, holding another object, holding the
\* marker of the folder "a" of each configuration
CreateStores ==
    { NoObjects,
      [k \in {<<"a", "b">>} |-> 1],
      [k \in {buildPath(config.BaseDirPrefix, <<"a">>) \o MarkerSuffix : config \in Configs} |-> 0] }

\* CreateFolder up to the answer of FolderExists
CreateFolderCheckOp(prefix, objects, folderPath, fault) ==
    LET check == FolderExistsOp(prefix, objects, folderPath, fault).res
    IN IF ValidatePath(folderPath) # NoErr
       THEN Goroutine("done", ValidatePath(folderPath), FALSE, FALSE)
       ELSE IF check.ok THEN Goroutine("done", NoErr, FALSE, FALSE)
       ELSE IF check.err # NoErr THEN Goroutine("done", check.err, TRUE, FALSE)
       ELSE Goroutine("write", NoErr, FALSE, FALSE)

\* the marker write refused when the key is there already
CreateFolderWriteOp_CreateOnly(prefix, objects, folderPath, fault) ==
    LET filePath == buildPath(prefix, folderPath) \o MarkerSuffix
        put == S3PutObject(objects, filePath, 0, fault)
    IN IF filePath \in DOMAIN objects
       THEN Outcome(Goroutine("done", ErrOther, FALSE, FALSE), objects)
       ELSE Outcome(Goroutine("done", put.err, put.err # NoErr, put.err = NoErr), put.objects)

\* CreateFolder from the marker write on
CreateFolderWriteOp(prefix, objects, folderPath, fault) ==
    LET fullPath == buildPath(prefix, folderPath)
        filePath == fullPath \o MarkerSuffix
        put == S3PutObject(objects, filePath, 0, fault)
    IN Outcome(Goroutine("done", put.err, put.err # NoErr, put.err = NoErr), put.objects)

InitCreate ==
    /\ bucketName = <<"b">>
    /\ \E config \in Configs :
          /\ baseDirPrefix = config.BaseDirPrefix
          /\ publicBaseURL = config.PublicURL
    /\ store \in CreateStores
    /\ \E p \in StorePaths : last = Pending(p)
    /\ running = [g \in Creators |-> Goroutine("check", NoErr, FALSE, FALSE)]

CreateFolderCheck(g) ==
    /\ running[g].pc = "check"
    /\ \E fault \in Faults :
          running' = [running EXCEPT
                         ![g] = CreateFolderCheckOp(baseDirPrefix, store, last.args[1], fault)]
    /\ UNCHANGED <<bucketName, baseDirPrefix, publicBaseURL, store, last>>

CreateFolderWrite(g) ==
    /\ running[g].pc = "write"
    /\ \E fault \in Faults :
          LET out == CreateFolderWriteOp(baseDirPrefix, store, last.args[1], fault)
          IN /\ running' = [running EXCEPT ![g] = out.res]
             /\ store' = out.objects
    /\ UNCHANGED <<bucketName, baseDirPrefix, publicBaseURL, last>>

NextCreate == \E g \in Creators : CreateFolderCheck(g) \/ CreateFolderWrite(g)

SpecCreate == InitCreate /\ [][NextCreate]_vars

----------------------------------------------------------------------------
(* RemoveFolder as the pipeline it starts: the listing of the storage      *)
(* client feeds objectCh, the bulk delete of the storage client reads      *)
(* objectCh, deletes in batches and reports the failures on errorCh, and   *)
(* RemoveFolder ranges over errorCh.  RemoveFolder passes the caller's ctx *)
(* on and holds no cancel function of its own.                             *)

\* the folder "a" with three objects and the sibling "ab", as a client with
\* base prefix `prefix` has stored them
FolderStore(prefix) ==
    [k \in {buildPath(prefix, path) :
               path \in {<<"a", "/", "a">>, <<"a", "/", "b">>, <<"a", "/", "a", "/", "b">>,
                         <<"a", "b">>}} |-> 1]

\* the bucket before the call: the folder as stored under each configuration
RemoveStores == { FolderStore(config.BaseDirPrefix) : config \in Configs }

\* the pipeline: where RemoveFolder stands and what it returned, the listed
\* keys not yet taken by the bulk delete, the failures the bulk delete has
\* still to report, the buffered errorCh, whether errorCh is closed, and
\* the objects whose deletion the backend refuses
Pipeline(pc, err, key, objectCh, toReport, errorCh, closed, failing) ==
    [pc |-> pc, err |-> err, key |-> key, objectCh |-> objectCh, toReport |-> toReport,
     errorCh |-> errorCh, closed |-> closed, failing |-> failing]

\* the first n elements of a sequence, all of it when it is shorter
Take(seq, n) == SubSeq(seq, 1, IF Len(seq) < n THEN Len(seq) ELSE n)

\* the elements of a sequence after the first n
Drop(seq, n) == SubSeq(seq, (IF Len(seq) < n THEN Len(seq) ELSE n) + 1, Len(seq))

\* the elements of seq that are in S, in order
RECURSIVE Keep(_, _)
Keep(seq, S) ==
    IF seq = <<>> THEN <<>>
    ELSE IF Head(seq) \in S THEN <<Head(seq)>> \o Keep(Tail(seq), S)
    ELSE Keep(Tail(seq), S)

InitRemove ==
    /\ bucketName = <<"b">>
    /\ \E config \in Configs :
          /\ baseDirPrefix = config.BaseDirPrefix
          /\ publicBaseURL = config.PublicURL
    /\ store \in RemoveStores
    /\ \E p \in StorePaths : last = Pending(p)
    /\ \E failing \in SUBSET DOMAIN store :
          running = Pipeline("start", NoErr, Empty, <<>>, <<>>, <<>>, FALSE, failing)

RemoveFrame == UNCHANGED <<bucketName, baseDirPrefix, publicBaseURL, last>>

\* RemoveFolder up to the range over errorCh: validation, the folder key with
\* its separator, the listing and the bulk delete started
RemoveFolderStart ==
    /\ running.pc = "start"
    /\ LET folderPath == last.args[1]
           built == buildPath(baseDirPrefix, folderPath)
           fullPath == IF ~HasSuffix(built, Slash) THEN built \o Slash ELSE built
           listing == S3ListObjects(store, fullPath, TRUE, NoErr)
       IN running' =
            IF ValidatePath(folderPath) # NoErr
            THEN [running EXCEPT !.pc = "done", !.err = ValidatePath(folderPath), !.closed = TRUE]
            ELSE [running EXCEPT !.pc = "range",
                                 !.objectCh = [i \in 1..Len(listing) |-> listing[i].Key]]
    /\ UNCHANGED store
    /\ RemoveFrame

\* the bulk delete takes the next batch of listed keys from objectCh and
\* sends one delete request for it: the backend deletes the objects of the
\* batch it can and answers with the failures
RemoveObjectsBatch ==
    /\ running.pc # "start"
    /\ running.objectCh # <<>>
    /\ running.toReport = <<>>
    /\ LET batch == Take(running.objectCh, MaxEntries)
           keys == {batch[i] : i \in 1..Len(batch)}
       IN /\ store' = Deleted(store, keys \ running.failing)
          /\ running' = [running EXCEPT !.objectCh = Drop(running.objectCh, MaxEntries),
                                        !.toReport = Keep(batch, running.failing)]
    /\ RemoveFrame

\* the bulk delete sends the next failure on errorCh, which buffers one
RemoveObjectsReport ==
    /\ running.toReport # <<>>
    /\ running.errorCh = <<>>
    /\ running' = [running EXCEPT !.toReport = Tail(running.toReport),
                                  !.errorCh = <<Head(running.toReport)>>]
    /\ UNCHANGED store
    /\ RemoveFrame

\* the listing is exhausted and every failure is sent: errorCh is closed
RemoveObjectsClose ==
    /\ running.pc # "start"
    /\ ~running.closed
    /\ running.objectCh = <<>>
    /\ running.toReport = <<>>
    /\ running' = [running EXCEPT !.closed = TRUE]
    /\ UNCHANGED store
    /\ RemoveFrame

\* RemoveFolder receives a failure from errorCh and returns it
RemoveFolderError ==
    /\ running.pc = "range"
    /\ running.errorCh # <<>>
    /\ running' = [running EXCEPT !.pc = "done", !.err = ErrOther,
                                  !.key = Head(running.errorCh), !.errorCh = <<>>]
    /\ UNCHANGED store
    /\ RemoveFrame

\* errorCh is closed and empty: RemoveFolder returns nil
RemoveFolderEnd ==
    /\ running.pc = "range"
    /\ running.errorCh = <<>>
    /\ running.closed
    /\ running' = [running EXCEPT !.pc = "done"]
    /\ UNCHANGED store
    /\ RemoveFrame

NextRemove ==
    \/ RemoveFolderStart
    \/ RemoveObjectsBatch
    \/ RemoveObjectsReport
    \/ RemoveObjectsClose
    \/ RemoveFolderError
    \/ RemoveFolderEnd

SpecRemove == InitRemove /\ [][NextRemove]_vars

----------------------------------------------------------------------------
(* ListObjects as the goroutines it leaves behind: the listing of the      *)
(* storage client sends on objectCh until it is through or ctx is done,    *)
(* the relay goroutine ranges over objectCh and sends every entry on the   *)
(* unbuffered strippedCh, the consumer receives from strippedCh for as     *)
(* long as it cares to, and the caller may cancel ctx at any time.         *)

\* the relay's position ("start": ListObjects not yet called; "recv": at the
\* range over objectCh; "send": at the send on strippedCh; "done": returned,
\* strippedCh closed; "none": no relay, the error channel was returned), the
\* entries the listing has still to send and whether it closed objectCh, the
\* entry the relay holds, the buffered entries of the returned channel, the
\* entries the consumer received, whether the consumer still receives,
\* whether ctx is cancelled, and the arguments recursive and fault
Relaying(pc, objectCh, closed, held, buffered, delivered, consumer, cancelled, recursive, fault) ==
    [pc |-> pc, objectCh |-> objectCh, closed |-> closed, held |-> held,
     buffered |-> buffered, delivered |-> delivered, consumer |-> consumer,
     cancelled |-> cancelled, recursive |-> recursive, fault |-> fault]

\* the listing prefixes the caller passes: the root, the folder, a name
\* that is refused
ListedPrefixes == { Empty, <<"a">>, <<"/", "a">> }

InitRelay ==
    /\ bucketName = <<"b">>
    /\ \E config \in Configs :
          /\ baseDirPrefix = config.BaseDirPrefix
          /\ publicBaseURL = config.PublicURL
          /\ store = FolderStore(config.BaseDirPrefix)
    /\ \E p \in ListedPrefixes : last = Pending(p)
    /\ \E recursive \in BOOLEAN, fault \in Faults :
          running = Relaying("start", <<>>, FALSE, Entry(Empty, NoErr), <<>>, <<>>,
                             "reading", FALSE, recursive, fault)

RelayFrame == UNCHANGED <<bucketName, baseDirPrefix, publicBaseURL, store, last>>

\* ListObjects itself: an invalid prefix gives back a closed channel that
\* buffers the error; otherwise the listing is started and the relay
\* goroutine is launched
ListObjectsStart ==
    /\ running.pc = "start"
    /\ LET prefix == last.args[1]
           fullPrefix == buildPath(baseDirPrefix, prefix)
       IN running' =
            IF prefix # Empty /\ ValidatePath(prefix) # NoErr
            THEN [running EXCEPT !.pc = "none", !.closed = TRUE,
                                 !.buffered = <<Entry(Empty, ValidatePath(prefix))>>]
            ELSE [running EXCEPT !.pc = "recv",
                                 !.objectCh = S3ListObjects(store, fullPrefix,
                                                            running.recursive, running.fault)]
    /\ RelayFrame

\* the consumer takes the buffered error entry
ReceiveError ==
    /\ running.consumer = "reading"
    /\ running.buffered # <<>>
    /\ running' = [running EXCEPT !.delivered = Append(running.delivered, Head(running.buffered)),
                                  !.buffered = Tail(running.buffered)]
    /\ RelayFrame

\* the relay receives the next entry of the listing and strips its key
RelayReceive ==
    /\ running.pc = "recv"
    /\ running.objectCh # <<>>
    /\ running' = [running EXCEPT !.pc = "send",
                                  !.held = Relay(baseDirPrefix, <<Head(running.objectCh)>>)[1],
                                  !.objectCh = Tail(running.objectCh)]
    /\ RelayFrame

\* the relay sends the entry on strippedCh: the consumer is there to receive
RelaySend ==
    /\ running.pc = "send"
    /\ running.consumer = "reading"
    /\ running' = [running EXCEPT !.pc = "recv",
                                  !.delivered = Append(running.delivered, running.held)]
    /\ RelayFrame

\* objectCh is closed and drained: the range ends, the deferred close of
\* strippedCh runs
RelayClose ==
    /\ running.pc = "recv"
    /\ running.objectCh = <<>>
    /\ running.closed
    /\ running' = [running EXCEPT !.pc = "done"]
    /\ RelayFrame

\* the listing has sent its last entry and closes objectCh
ListingEnd ==
    /\ running.pc \in {"recv", "send"}
    /\ ~running.closed
    /\ running.objectCh = <<>>
    /\ running' = [running EXCEPT !.closed = TRUE]
    /\ RelayFrame

\* the listing finds ctx done: it gives up its entries and closes objectCh
ListingCancelled ==
    /\ running.pc \in {"recv", "send"}
    /\ ~running.closed
    /\ running.cancelled
    /\ running' = [running EXCEPT !.closed = TRUE, !.objectCh = <<>>]
    /\ RelayFrame

\* the consumer stops receiving from the channel it was given
ConsumerStops ==
    /\ running.pc # "start"
    /\ running.consumer = "reading"
    /\ running' = [running EXCEPT !.consumer = "stopped"]
    /\ RelayFrame

\* the caller cancels ctx
CancelContext ==
    /\ ~running.cancelled
    /\ running' = [running EXCEPT !.cancelled = TRUE]
    /\ RelayFrame

NextRelay ==
    \/ ListObjectsStart
    \/ ReceiveError
    \/ RelayReceive
    \/ RelaySend
    \/ RelayClose
    \/ ListingEnd
    \/ ListingCancelled
    \/ ConsumerStops
    \/ CancelContext

\* the steps of the goroutine that calls ListObjects and of the relay it
\* launches, and the steps of the listing goroutine of the storage client
RelayStep == ListObjectsStart \/ RelayReceive \/ RelaySend \/ RelayClose

ListingStep == ListingEnd \/ ListingCancelled

\* a goroutine that can take a step takes it in the end (the Go scheduler
\* starves no runnable goroutine); the consumer and the caller are under no
\* obligation to stop or to cancel
SpecRelay ==
    /\ InitRelay
    /\ [][NextRelay]_vars
    /\ WF_vars(RelayStep)
    /\ WF_vars(ListingStep)

----------------------------------------------------------------------------
(* Claims about the path algebra, checked under SpecPath *)

\* the path has a segment that is exactly ".."
HasDotDotSegment(p) ==
    LET segs == Split(ToSlash(p)) IN \E i \in 1..Len(segs) : segs[i] = DotDot

\* C1: round trip.  For every base prefix and every relative path p with no
\* ".." segment that does not begin with a separator, stripping the key
\* built from p gives p with its leading and trailing separators trimmed.
C1_RoundTrip ==
    (/\ last.op = "buildThenStrip"
     /\ ~HasDotDotSegment(last.args[1])
     /\ ~HasPrefix(last.args[1], Slash))
    => last.key = Trim(ToSlash(last.args[1]))

\* C1 witness: under base prefix "a", the path "a/a/" came back as "a/a"
C1_Witness ==
    /\ last.op = "buildThenStrip"
    /\ baseDirPrefix = <<"a">>
    /\ last.args[1] = <<"a", "/", "a", "/">>
    /\ last.key = <<"a", "/", "a">>

\* C2: every path with a ".." segment, wherever it stands, fails
\* ValidatePath with the traversal error.
C2_TraversalRejected ==
    (last.op = "ValidatePath" /\ HasDotDotSegment(last.args[1]))
    => last.err = ErrTraversal

\* C2 witness: the embedded segment of "a/../a" was rejected as a traversal
C2_Witness ==
    /\ last.op = "ValidatePath"
    /\ last.args[1] = <<"a", "/", ".", ".", "/", "a">>
    /\ last.err = ErrTraversal

\* C3 as stated: every path beginning with "/" fails ValidatePath with the
\* absolute-path error and no other error.
C3_AbsoluteAlways ==
    (last.op = "ValidatePath" /\ HasPrefix(last.args[1], Slash))
    => last.err = ErrAbsolute

\* C3 amended: every path beginning with "/" fails ValidatePath: with the
\* absolute-path error when it holds no two consecutive dots, and with the
\* traversal error (which is tested first) when it does.
C3_AbsoluteUnlessDots ==
    (last.op = "ValidatePath" /\ HasPrefix(last.args[1], Slash))
    => last.err = (IF Contains(last.args[1], DotDot) THEN ErrTraversal ELSE ErrAbsolute)

\* C3 witness: "/a" was rejected as an absolute path
C3_Witness ==
    /\ last.op = "ValidatePath"
    /\ last.args[1] = <<"/", "a">>
    /\ last.err = ErrAbsolute

\* the policy table of buildPath over normalized inputs
PolicyTable(prefix, path) ==
    IF prefix = Empty /\ path = Empty THEN Empty
    ELSE IF prefix = Empty THEN path
    ELSE IF path = Empty THEN prefix
    ELSE prefix \o Slash \o path

\* C4 as stated: for every configured base prefix and every path, buildPath
\* gives the policy table's result over the trimmed prefix and the trimmed
\* path, and the result never begins with a separator.
C4_PolicyTable ==
    last.op = "buildPath"
    => /\ last.key = PolicyTable(Trim(ToSlash(baseDirPrefix)), Trim(ToSlash(last.args[1])))
       /\ ~HasPrefix(last.key, Slash)

\* C5 as stated, the base prefix taken in its normalized form: with an empty
\* base prefix the key comes back unchanged; otherwise prefix + "/" + rest
\* gives rest, the prefix itself gives the empty string, and any other key
\* comes back unchanged.
C5_StripPolicy ==
    last.op = "stripBasePath"
    => LET prefix == Trim(ToSlash(baseDirPrefix))
           k == last.args[1]
       IN last.key =
            (IF prefix = Empty THEN k
             ELSE IF HasPrefix(k, prefix \o Slash)
                  THEN SubSeq(k, Len(prefix) + 2, Len(k))
             ELSE IF k = prefix THEN Empty
             ELSE k)

----------------------------------------------------------------------------
(* Claims about the operations, checked under Spec *)

ValidationErrors == {ErrTraversal, ErrAbsolute}

\* the path holds two consecutive dots or begins with a separator
Unsafe(p) == Contains(ToSlash(p), DotDot) \/ HasPrefix(ToSlash(p), Slash)

\* the caller-supplied paths of a call: its path arguments; for
\* ComposeObject the destination and the sources in the client's bucket
PathArgs(r) ==
    IF r.op = "ComposeObject"
    THEN {r.args[1]} \cup
         {r.args[2][i].Object : i \in {j \in 1..Len(r.args[2]) : r.args[2][j].Bucket = bucketName}}
    ELSE {r.args[i] : i \in 1..Len(r.args)}

\* the call was refused with a validation error
RefusedAsInvalid(r) ==
    IF r.op = "ListObjects"
    THEN Len(r.list) = 1 /\ r.list[1].Err \in ValidationErrors
    ELSE r.err \in ValidationErrors

\* C6 as stated: every operation that takes a caller-supplied path validates
\* it first: when a path fails validation the operation returns the
\* validation error and has issued no call to the storage client.
C6_AllValidateFirst ==
    (/\ last.op \notin {"idle", "GetPresignedPostPolicy"}
     /\ \E p \in PathArgs(last) : Unsafe(p))
    => (last.calls = <<>> /\ RefusedAsInvalid(last))

\* C6 amended: every operation that takes a caller-supplied path, except
\* SelectObjectContent, issues no call to the storage client when a path
\* given to it fails validation, and returns the validation error; only
\* GetPublicURL of a client without a public base URL returns the
\* configuration error instead.
C6_ValidateFirstButSelect ==
    (/\ last.op \notin {"idle", "GetPresignedPostPolicy", "SelectObjectContent"}
     /\ \E p \in PathArgs(last) : Unsafe(p))
    => /\ last.calls = <<>>
       /\ \/ RefusedAsInvalid(last)
          \/ last.op = "GetPublicURL" /\ publicBaseURL = Empty /\ last.err = ErrNotConfigured

\* C6 witness: PutObject("../a") over a bucket that holds objects was
\* refused as a traversal without a call to the storage client
C6_Witness ==
    /\ last.op = "PutObject"
    /\ last.args[1] = <<".", ".", "/", "a">>
    /\ last.err = ErrTraversal
    /\ last.calls = <<>>
    /\ DOMAIN store # {}

\* C7: in every reachable bucket, a FolderExists(p) that returns without
\* error returns true exactly when the marker object buildPath(p) + "/.empty"
\* is present, and it never returns true without the marker.
C7_MarkerDecides ==
    last.op = "FolderExists"
    => LET marker == buildPath(baseDirPrefix, last.args[1]) \o MarkerSuffix
       IN /\ last.ok => marker \in DOMAIN store
          /\ last.err = NoErr => (last.ok <=> marker \in DOMAIN store)

\* C7 witness: FolderExists("a") answered false, without error, while an
\* object written by PutObject lies under the folder
C7_Witness ==
    /\ last.op = "FolderExists"
    /\ last.args[1] = <<"a">>
    /\ last.err = NoErr
    /\ ~last.ok
    /\ \E k \in DOMAIN store : HasPrefix(k, buildPath(baseDirPrefix, <<"a">>) \o Slash)

\* C8: a second CreateFolder(p), called right after a successful
\* CreateFolder(p) and whose existence check the storage client answers,
\* returns no error, issues no write, and leaves the bucket as it was, the
\* zero-length marker included.
C8_SecondCreateFolder ==
    [][(/\ last.op = "CreateFolder" /\ last.err = NoErr
        /\ last'.op = "CreateFolder" /\ last'.flag /\ last'.args = last.args
        /\ last'.calls # <<>> /\ last'.calls[1].resp # ErrOther)
       => LET marker == buildPath(baseDirPrefix, last.args[1]) \o MarkerSuffix
          IN /\ last'.err = NoErr
             /\ \A i \in 1..Len(last'.calls) : last'.calls[i].api = "StatObject"
             /\ store' = store
             /\ marker \in DOMAIN store' /\ store'[marker] = 0]_vars

\* C8 witness: the second CreateFolder("a/b") has returned without error
\* and without a write
C8_Witness ==
    /\ last.op = "CreateFolder"
    /\ last.flag
    /\ last.args[1] = <<"a", "/", "b">>
    /\ last.err = NoErr
    /\ Len(last.calls) = 1

\* C9 as stated: after RemoveFolder(p) has returned success, no object
\* remains under the folder, and a ListObjects(p, true) that follows (and
\* that the storage client answers) yields no entries.
C9_RemovedThenNothingListed ==
    [][(/\ last.op = "RemoveFolder" /\ last.err = NoErr
        /\ last'.op = "ListObjects" /\ last'.args = last.args /\ last'.flag
        /\ last'.calls # <<>> /\ last'.calls[1].resp = NoErr)
       => /\ \A k \in DOMAIN store :
                ~HasPrefix(k, buildPath(baseDirPrefix, last.args[1]) \o Slash)
          /\ last'.list = <<>>]_vars

\* the entries the storage client gives for the listing ListFolders asked for
ListedFor(r) == S3ListObjects(store, r.calls[1].key, FALSE, NoErr)

\* the segments of an entry's key relative to the listing root
SegmentsOf(r, e) == Split(SubSeq(e.Key, Len(r.calls[1].key) + 1, Len(e.Key)))

\* the positions of the entries that name a folder n
FolderEntries(r, n) ==
    {i \in 1..Len(ListedFor(r)) :
        LET segs == SegmentsOf(r, ListedFor(r)[i])
        IN Len(segs) > 1 /\ segs[1] # Empty /\ segs[1] = n}

\* the first position at which folder n is seen
FirstSeen(r, n) == CHOOSE i \in FolderEntries(r, n) : \A j \in FolderEntries(r, n) : i <= j

\* C10: a ListFolders(prefix) that is answered lists non-recursively under
\* the full prefix (with one trailing separator when not empty) and returns
\* the first segment, relative to that root, of every entry with more than
\* one segment and a non-empty first segment: each name once, in first-seen
\* order; every name with a deeper key under it is returned, marker or not.
C10_ListFolders ==
    (last.op = "ListFolders" /\ last.err = NoErr /\ last.calls # <<>>)
    => LET built == buildPath(baseDirPrefix, last.args[1])
           root == last.calls[1].key
           names == {last.list[i] : i \in 1..Len(last.list)}
       IN /\ root = (IF built = Empty THEN Empty ELSE built \o Slash)
          /\ ~last.calls[1].recursive
          /\ names = {SegmentsOf(last, ListedFor(last)[i])[1] :
                        i \in {j \in 1..Len(ListedFor(last)) :
                                 /\ Len(SegmentsOf(last, ListedFor(last)[j])) > 1
                                 /\ SegmentsOf(last, ListedFor(last)[j])[1] # Empty}}
          /\ Cardinality(names) = Len(last.list)
          /\ \A i, j \in 1..Len(last.list) :
                i < j => FirstSeen(last, last.list[i]) < FirstSeen(last, last.list[j])
          /\ \A k \in DOMAIN store :
                LET rest == SubSeq(k, Len(root) + 1, Len(k))
                IN (HasPrefix(k, root) /\ FirstSlash(rest) > 1)
                   => SubSeq(rest, 1, FirstSlash(rest) - 1) \in names

\* C10 witness: ListFolders("") returned "a" and then "b", and the folder
\* "a" it lists has no marker object
C10_Witness ==
    /\ last.op = "ListFolders"
    /\ last.args[1] = Empty
    /\ last.list = << <<"a">>, <<"b">> >>
    /\ buildPath(baseDirPrefix, <<"a">>) \o MarkerSuffix \notin DOMAIN store

----------------------------------------------------------------------------
(* Claims about keys, listings and options, checked under Spec *)

\* C11: for every valid relative path p, PutObject(p) issues one PutObject
\* call to the storage client, for the configured bucket and the key
\* buildPath(p); when it succeeds the object is stored at that key and the
\* caller gets the key with the base prefix stripped: the sent key is the
\* returned key itself without a base prefix, and otherwise the normalized
\* base prefix, a separator and the returned key (the normalized base prefix
\* alone when the returned key is empty)
C11_PutObjectKeys ==
    (last.op = "PutObject" /\ ValidatePath(last.args[1]) = NoErr) =>
        /\ Len(last.calls) = 1
        /\ last.calls[1].api = "PutObject"
        /\ last.calls[1].bucket = bucketName
        /\ last.calls[1].key = buildPath(baseDirPrefix, last.args[1])
        /\ last.err = last.calls[1].resp
        /\ last.err = NoErr =>
              /\ last.calls[1].key \in DOMAIN store
              /\ last.key = stripBasePath(baseDirPrefix, last.calls[1].key)
              /\ last.calls[1].key =
                    IF baseDirPrefix = Empty THEN last.key
                    ELSE IF last.key = Empty THEN Trim(baseDirPrefix)
                    ELSE Trim(baseDirPrefix) \o Slash \o last.key

\* a successful PutObject("a/b") of a client with base prefix "a": the
\* storage client got "a/a/b", the caller got "a/b"
C11_Witness ==
    /\ last.op = "PutObject"
    /\ last.err = NoErr
    /\ baseDirPrefix = <<"a">>
    /\ last.args[1] = <<"a", "/", "b">>
    /\ last.calls[1].key = <<"a", "/", "a", "/", "b">>
    /\ last.key = <<"a", "/", "b">>

\* the entries the storage client produced for the listing that r relayed
Produced(r) == S3ListObjects(store, r.calls[1].key, r.flag, r.calls[1].resp)

\* key is the relative form of the stored key full, for a client whose
\* base prefix is prefix
RelativeOf(prefix, full, key) ==
    IF prefix = Empty THEN key = full
    ELSE \/ full = Trim(prefix) \o Slash \o key
         \/ key = Empty /\ full = Trim(prefix)

\* C12: ListObjects delivers one entry for each entry the storage client
\* produced, in the same order; an entry that carries an error is delivered
\* as it is; a successful entry is delivered with its key in relative form
\* (the stored key is the base prefix, a separator and the delivered key),
\* never with the stored key itself when a base prefix is configured
C12_RelativeKeys ==
    (last.op = "ListObjects" /\ last.calls # <<>>) =>
        /\ Len(last.list) = Len(Produced(last))
        /\ \A i \in 1..Len(last.list) :
              IF Produced(last)[i].Err # NoErr
              THEN last.list[i] = Produced(last)[i]
              ELSE /\ last.list[i].Err = NoErr
                   /\ RelativeOf(baseDirPrefix, Produced(last)[i].Key, last.list[i].Key)
                   /\ baseDirPrefix # Empty => last.list[i].Key # Produced(last)[i].Key

\* the stored key lies inside the namespace of base prefix `prefix`
InNamespace(prefix, full) ==
    \/ HasPrefix(full, Trim(prefix) \o Slash)
    \/ full = Trim(prefix)

\* C20: with a non-empty base prefix, every entry that ListObjects delivers
\* names a stored key inside the namespace: the base prefix itself or a key
\* under the base prefix and a separator
C20_ListingConfined ==
    (last.op = "ListObjects" /\ last.calls # <<>> /\ last.calls[1].resp = NoErr
        /\ baseDirPrefix # Empty) =>
        /\ Len(last.list) = Len(Produced(last))
        /\ \A i \in 1..Len(last.list) : InNamespace(baseDirPrefix, Produced(last)[i].Key)

\* C13: the base prefix a constructed client holds has no ".." segment and
\* no leading or trailing separator
C13_PrefixNormalized ==
    /\ ~HasDotDotSegment(baseDirPrefix)
    /\ ~HasPrefix(baseDirPrefix, Slash)
    /\ ~HasSuffix(baseDirPrefix, Slash)

\* C15: FolderExists answers from the storage client's response to the
\* StatObject of the marker key: success gives (true, nil), "NoSuchKey" gives
\* (false, nil), any other error gives (false, that error); CreateFolder
\* returns such an error of its check as it is and issues no PutObject
C15_CheckErrors ==
    /\ (last.op = "FolderExists" /\ ValidatePath(last.args[1]) = NoErr) =>
          /\ Len(last.calls) = 1
          /\ last.calls[1].api = "StatObject"
          /\ last.calls[1].key = buildPath(baseDirPrefix, last.args[1]) \o MarkerSuffix
          /\ last.calls[1].resp = NoErr => (last.ok /\ last.err = NoErr)
          /\ last.calls[1].resp = ErrNoSuchKey => (~last.ok /\ last.err = NoErr)
          /\ last.calls[1].resp \notin {NoErr, ErrNoSuchKey} =>
                (~last.ok /\ last.err = last.calls[1].resp)
    /\ (last.op = "CreateFolder" /\ ValidatePath(last.args[1]) = NoErr
            /\ last.calls[1].resp \notin {NoErr, ErrNoSuchKey}) =>
          /\ last.err = last.calls[1].resp
          /\ \A i \in 1..Len(last.calls) : last.calls[i].api # "PutObject"

\* FolderExists("a") was answered a storage error and returned it with
\* false, in a bucket that holds objects
C15_Witness ==
    /\ last.op = "FolderExists"
    /\ last.args[1] = <<"a">>
    /\ last.calls # <<>>
    /\ last.calls[1].resp = ErrOther
    /\ last.err = ErrOther
    /\ ~last.ok
    /\ store # NoObjects

\* C16: a RemoveFolder(p) adds no object, and every object whose key does
\* not begin with buildPath(p) followed by a separator is in the bucket
\* afterwards as it was before, whatever the base prefix and the path
C16_RemoveFolderFrame ==
    [][(last.op = "idle" /\ last'.op = "RemoveFolder") =>
          /\ DOMAIN store' \subseteq DOMAIN store
          /\ \A k \in DOMAIN store :
                ~HasPrefix(k, buildPath(baseDirPrefix, last'.args[1]) \o Slash) =>
                    (k \in DOMAIN store' /\ store'[k] = store[k])]_vars

\* RemoveFolder("a") has succeeded on a client without base prefix: the
\* bucket holds the sibling "ab" and nothing under "a/"
C16_Witness ==
    /\ last.op = "RemoveFolder"
    /\ last.err = NoErr
    /\ baseDirPrefix = Empty
    /\ last.args[1] = <<"a">>
    /\ <<"a", "b">> \in DOMAIN store
    /\ \A k \in DOMAIN store : ~HasPrefix(k, <<"a", "/">>)

\* the operations that take an options value from the caller
TakesOptions ==
    {"StatObject", "GetObject", "PutObject", "RemoveObject", "CopyObject", "ComposeObject",
     "GetObjectTagging", "PutObjectTagging", "RemoveObjectTagging",
     "GetObjectRetention", "PutObjectRetention", "GetObjectLegalHold", "PutObjectLegalHold",
     "SelectObjectContent"}

\* C19: every call that a single-object operation taking options issues to
\* the storage client carries the configured bucket and the options the
\* caller supplied
C19_OptionsForwarded ==
    last.op \in TakesOptions =>
        \A i \in 1..Len(last.calls) :
            /\ last.calls[i].bucket = bucketName
            /\ last.calls[i].opts = CallerOpts

----------------------------------------------------------------------------
(* Claim about concurrent CreateFolder calls, checked under SpecCreate *)

\* the marker key of the folder the racing calls create
RacedMarker == buildPath(baseDirPrefix, last.args[1]) \o MarkerSuffix

\* C14: when CreateFolder(p) calls for one valid path interleave, a call
\* returns an error only if the storage client failed one of that call's
\* requests; once a call has returned success the bucket holds the marker of
\* p with zero length; and no step of the race changes the bucket otherwise
\* than by writing that empty marker
C14_CreatorsRace ==
    /\ [](ValidatePath(last.args[1]) = NoErr =>
            \A g \in Creators :
                running[g].pc = "done" =>
                    /\ running[g].err # NoErr => running[g].faulted
                    /\ running[g].err = NoErr =>
                          (RacedMarker \in DOMAIN store /\ store[RacedMarker] = 0))
    /\ [][store' # store => store' = Written(store, RacedMarker, 0)]_vars

\* two calls have both found the folder absent, both written the marker
\* and both returned success
C14_Witness ==
    /\ \A g \in Creators :
          running[g].pc = "done" /\ running[g].wrote /\ running[g].err = NoErr
    /\ store[RacedMarker] = 0

----------------------------------------------------------------------------
(* Claim about the pipeline of RemoveFolder, checked under SpecRemove *)

\* RemoveFolder has returned the error of a failed deletion
ReturnedFailure == running.pc = "done" /\ running.err = ErrOther

\* C17: when RemoveFolder returns the error of a failed deletion, that is
\* the first failure the bulk delete reported; from then on no object is
\* deleted; and the pipeline does not come to rest with a stage that has
\* not finished (listed keys not taken, a failure not sent, errorCh open)
C17_PipelineStops ==
    /\ [](ReturnedFailure => running.key \in running.failing)
    /\ [][ReturnedFailure => store' = store]_vars
    /\ []((ReturnedFailure /\ ~ENABLED NextRemove) =>
            (running.objectCh = <<>> /\ running.toReport = <<>> /\ running.closed))

----------------------------------------------------------------------------
(* Claim about the relay of ListObjects, checked under SpecRelay *)

\* C18: once the consumer has stopped receiving and ctx is cancelled, the
\* relay goroutine of a started listing comes to its end and closes the
\* output channel
C18_RelayTerminates ==
    (running.consumer = "stopped" /\ running.cancelled /\ running.pc \in {"recv", "send"})
        ~> (running.pc = "done")

----------------------------------------------------------------------------
(* Claim about what ValidatePath refuses, checked under SpecPath *)

\* C21: ValidatePath refuses a path only if the path has a ".." segment or
\* begins with a separator; every other path is accepted, also one whose
\* segment names merely contain two consecutive dots
C21_OnlySegmentsRefused ==
    (last.op = "ValidatePath" /\ last.err # NoErr) =>
        (HasDotDotSegment(last.args[1]) \/ HasPrefix(ToSlash(last.args[1]), Slash))

----------------------------------------------------------------------------
(* Claim about the slice handed to ComposeObject, checked under Spec *)

\* C22: ComposeObject leaves the slice of sources the caller passed as it
\* was, whether it fails validation or goes through; and a second call with
\* the same slice sends the storage client the same sources as the first
C22_SliceUnchanged ==
    /\ [](last.op = "ComposeObject" => last.list = last.args[2])
    /\ [][(last.op = "ComposeObject" /\ last'.op = "ComposeObject" /\ last'.flag
              /\ last.calls # <<>>) =>
             (last'.calls # <<>> /\ last'.calls[1].src = last.calls[1].src)]_vars

====
